---- MODULE Spec2Model ----
(***************************************************************************)
(* Model of src/main/default/lwc/cometD/cometD.js: the module-level        *)
(* memoised script load (scriptPromise, loadCometd) and initCometD with    *)
(* the handle it resolves with.  The host script loader, the Apex          *)
(* getContext call and the CometD client are the environment: their        *)
(* outcomes (load ok/failed, global present/absent, context values,        *)
(* handshake status, exceptions of unsubscribe/disconnect) are chosen      *)
(* nondeterministically.                                                   *)
(***************************************************************************)
EXTENDS Integers, Sequences, FiniteSets, TLC

\* ---- bounds ----
MaxCalls == 2          \* number of initCometD calls made in one page
MaxDisconnects == 2    \* number of disconnect() calls made on one handle

Calls == 1..MaxCalls

\* ---- input domains ----
\* JS values a caller may pass as `context`: undefined, null, or a component
Contexts == {"undefined", "null", "component"}
\* JS values a caller may pass as `channel`: undefined, "", or a channel name
Channels == {"undefined", "", "/event/A__e"}
\* websocketEnabled as passed by the caller ("unset" = property not passed)
WsArgs == {"unset", "true"}
\* values getContext() may resolve with
\* (null, a record without sessionId, a record with a sessionId)
Ctxs == { [isNull |-> TRUE,  sessionId |-> ""],
          [isNull |-> FALSE, sessionId |-> ""],
          [isNull |-> FALSE, sessionId |-> "SID"] }
NoCtx == [isNull |-> TRUE, sessionId |-> ""]
\* status objects the handshake callback may receive:
\* undefined, {successful: false}, {successful: true}
Statuses == {"undefined", "failed", "successful"}
\* what cometd.subscribe hands back: a subscription object or nothing
SubResults == {"sub", "null"}

VARIABLES
    scriptPromise,    \* module-level `let scriptPromise`
    loadScriptCalls,  \* number of invocations of the host loadScript
    getContextCalls,  \* number of invocations of the Apex getContext
    cometdGlobal,     \* window.org.cometd.CometD is defined
    calls,            \* per initCometD call: arguments, position, promise
    clients,          \* the CometD objects created by `new CometD()`
    disconnects       \* per call: outcomes of the handle's disconnect() calls

vars == <<scriptPromise, loadScriptCalls, getContextCalls, cometdGlobal,
          calls, clients, disconnects>>

\* JS truthiness of the argument values above
Truthy(v) == v \notin {"undefined", "null", "", "false"}

NoReason == [kind |-> "none", val |-> ""]
Err(msg) == [kind |-> "error", val |-> msg]
NoHandle == [fields |-> {}, cometd |-> 0, subscription |-> "null"]

IdleCall == [pc |-> "idle", context |-> "undefined", channel |-> "undefined",
             wsArg |-> "unset", ctxPromise |-> "none", ctx |-> NoCtx,
             promise |-> "none", reason |-> NoReason,
             resolveCalls |-> 0, rejectCalls |-> 0,
             client |-> 0, hsStatus |-> "none", handle |-> NoHandle]

\* default parameter values of initCometD
DefaultWebsocketEnabled == "false"
DefaultLogLevel == "debug"

\* websocketEnabled = false (default parameter)
WebsocketEnabledParam(wsArg) ==
    IF wsArg = "unset" THEN DefaultWebsocketEnabled ELSE wsArg

\* the two argument checks at the top of initCometD
ValidateNoChannelCheck(context, channel) ==
    IF ~Truthy(context) THEN "CometD init requires an LWC context." ELSE "ok"

Validate(context, channel) ==
    IF ~Truthy(context) THEN "CometD init requires an LWC context."
    ELSE IF ~Truthy(channel) THEN "CometD init requires a channel."
    ELSE "ok"

\* loadCometd: memoise the loader's promise in scriptPromise
LoadCometdNoMemo(sp) ==
    [promise |-> IF sp = "unset" THEN "pending" ELSE sp, invoked |-> 1]

LoadCometd(sp) ==
    IF sp = "unset" THEN [promise |-> "pending", invoked |-> 1]
    ELSE [promise |-> sp, invoked |-> 0]

\* state of Promise.all([load, getContext])
AllStateNoReject(load, ctxp) ==
    IF load = "resolved" /\ ctxp = "resolved" THEN "resolved" ELSE "pending"

AllState(load, ctxp) ==
    IF load = "rejected" \/ ctxp = "rejected" THEN "rejected"
    ELSE IF load = "resolved" /\ ctxp = "resolved" THEN "resolved"
    ELSE "pending"

\* the two checks at the top of the .then callback
ThenChecksNoSession(global, ctx) ==
    IF ~global THEN "CometD library not found on window." ELSE "ok"

ThenChecks(global, ctx) ==
    IF ~global THEN "CometD library not found on window."
    ELSE IF ctx.isNull \/ ctx.sessionId = ""
         THEN "CometD init could not resolve session id."
    ELSE "ok"

\* new CometD(); configure({...}); cometd.websocketEnabled = ...; handshake(cb)
NewClient(c, ctx, wsArg) ==
    [owner |-> c,
     authorization |-> <<"OAuth", ctx.sessionId>>,
     logLevel |-> DefaultLogLevel,
     websocketEnabled |-> WebsocketEnabledParam(wsArg),
     handshakes |-> 1,
     subscriptions |-> {},
     subscribeCalls |-> 0,
     unsubscribeCalls |-> 0,
     disconnectCalls |-> 0,
     connected |-> FALSE]

\* !status?.successful is false
StatusSuccessfulIfPresent(status) == status # "undefined"

StatusSuccessful(status) == status = "successful"

\* the handle's disconnect(): two try/catch blocks
DisconnectBodyNoCatch(cl, subscription, channel, unsubThrows, discThrows) ==
    LET doUnsub == Truthy(subscription)
        c1 == IF doUnsub
              THEN [cl EXCEPT !.unsubscribeCalls = @ + 1,
                              !.subscriptions =
                                  IF unsubThrows THEN @ ELSE @ \ {channel}]
              ELSE cl
    IN  IF doUnsub /\ unsubThrows
        THEN [client |-> c1, outcome |-> "threw"]
        ELSE [client |-> [c1 EXCEPT !.disconnectCalls = @ + 1,
                                    !.connected =
                                        IF discThrows THEN @ ELSE FALSE],
              outcome |-> IF discThrows THEN "threw" ELSE "returned"]

DisconnectBody(cl, subscription, channel, unsubThrows, discThrows) ==
    LET doUnsub == Truthy(subscription)
        c1 == IF doUnsub
              THEN [cl EXCEPT !.unsubscribeCalls = @ + 1,
                              !.subscriptions =
                                  IF unsubThrows THEN @ ELSE @ \ {channel}]
              ELSE cl
        c2 == [c1 EXCEPT !.disconnectCalls = @ + 1,
                         !.connected = IF discThrows THEN @ ELSE FALSE]
    IN  [client |-> c2, outcome |-> "returned"]

\* the object passed to resolve()
MakeHandle(clientIdx, subscription) ==
    [fields |-> {"cometd", "subscription", "disconnect"},
     cometd |-> clientIdx, subscription |-> subscription]

Init ==
    /\ scriptPromise = "unset"
    /\ loadScriptCalls = 0
    /\ getContextCalls = 0
    /\ cometdGlobal = FALSE
    /\ calls = [c \in Calls |-> IdleCall]
    /\ clients = <<>>
    /\ disconnects = [c \in Calls |-> <<>>]

\* initCometD({context, channel, websocketEnabled}) up to the returned promise
InitCometD(c, context, channel, wsArg) ==
    /\ calls[c].pc = "idle"
    /\ c > 1 => calls[c - 1].pc # "idle"
    /\ LET v == Validate(context, channel)
           lc == LoadCometd(scriptPromise)
           args == [IdleCall EXCEPT !.context = context, !.channel = channel,
                                    !.wsArg = wsArg]
       IN  IF v # "ok"
           THEN /\ calls' = [calls EXCEPT ![c] =
                       [args EXCEPT !.pc = "done", !.promise = "rejected",
                                    !.reason = Err(v), !.rejectCalls = 1]]
                /\ UNCHANGED <<scriptPromise, loadScriptCalls,
                               getContextCalls>>
           ELSE /\ scriptPromise' = lc.promise
                /\ loadScriptCalls' = loadScriptCalls + lc.invoked
                /\ getContextCalls' = getContextCalls + 1
                /\ calls' = [calls EXCEPT ![c] =
                       [args EXCEPT !.pc = "awaitAll",
                                    !.ctxPromise = "pending",
                                    !.promise = "pending"]]
    /\ UNCHANGED <<cometdGlobal, clients, disconnects>>

\* the host loader settles the script load; a resolved load of a non-UMD
\* bundle leaves window.org.cometd.CometD undefined
LoadSettle(ok, global) ==
    /\ scriptPromise = "pending"
    /\ scriptPromise' = IF ok THEN "resolved" ELSE "rejected"
    /\ cometdGlobal' = (ok /\ global)
    /\ UNCHANGED <<loadScriptCalls, getContextCalls, calls, clients,
                   disconnects>>

\* the Apex call of one initCometD call settles
\* (once Promise.all has rejected nothing observes this promise any more)
GetContextSettle(c, ok, ctx) ==
    /\ calls[c].pc = "awaitAll"
    /\ calls[c].ctxPromise = "pending"
    /\ calls' = [calls EXCEPT ![c].ctxPromise =
                                  IF ok THEN "resolved" ELSE "rejected",
                              ![c].ctx = IF ok THEN ctx ELSE NoCtx]
    /\ UNCHANGED <<scriptPromise, loadScriptCalls, getContextCalls,
                   cometdGlobal, clients, disconnects>>

\* Promise.all rejected: the .then callback is skipped, the returned promise
\* rejects with the reason of the rejected input
AllRejected(c, reason) ==
    /\ calls[c].pc = "awaitAll"
    /\ AllState(scriptPromise, calls[c].ctxPromise) = "rejected"
    /\ \/ reason = "loadScript rejected" /\ scriptPromise = "rejected"
       \/ reason = "getContext rejected" /\ calls[c].ctxPromise = "rejected"
    /\ calls' = [calls EXCEPT ![c].pc = "done", ![c].promise = "rejected",
                              ![c].reason = Err(reason),
                              ![c].rejectCalls = @ + 1]
    /\ UNCHANGED <<scriptPromise, loadScriptCalls, getContextCalls,
                   cometdGlobal, clients, disconnects>>

\* the .then callback: checks, new CometD, configure, handshake(callback)
ThenCallback(c) ==
    /\ calls[c].pc = "awaitAll"
    /\ AllState(scriptPromise, calls[c].ctxPromise) = "resolved"
    /\ LET v == ThenChecks(cometdGlobal, calls[c].ctx)
       IN  IF v # "ok"
           THEN /\ calls' = [calls EXCEPT ![c].pc = "done",
                                          ![c].promise = "rejected",
                                          ![c].reason = Err(v),
                                          ![c].rejectCalls = @ + 1]
                /\ UNCHANGED clients
           ELSE /\ clients' = Append(clients,
                                  NewClient(c, calls[c].ctx, calls[c].wsArg))
                /\ calls' = [calls EXCEPT ![c].pc = "handshaking",
                                          ![c].client = Len(clients) + 1]
    /\ UNCHANGED <<scriptPromise, loadScriptCalls, getContextCalls,
                   cometdGlobal, disconnects>>

\* the callback given to cometd.handshake, invoked by the client with status
HandshakeCallback(c, status, subResult) ==
    /\ calls[c].pc = "handshaking"
    /\ LET k == calls[c].client
       IN  IF ~StatusSuccessful(status)
           THEN /\ calls' = [calls EXCEPT ![c].pc = "done",
                                          ![c].hsStatus = status,
                                          ![c].promise = "rejected",
                                          ![c].reason =
                                              [kind |-> "status",
                                               val |-> status],
                                          ![c].rejectCalls = @ + 1]
                /\ UNCHANGED clients
           ELSE /\ clients' = [clients EXCEPT
                                  ![k].connected = TRUE,
                                  ![k].subscribeCalls = @ + 1,
                                  ![k].subscriptions =
                                      @ \cup {calls[c].channel}]
                /\ calls' = [calls EXCEPT ![c].pc = "done",
                                          ![c].hsStatus = status,
                                          ![c].promise = "resolved",
                                          ![c].resolveCalls = @ + 1,
                                          ![c].handle =
                                              MakeHandle(k, subResult)]
    /\ UNCHANGED <<scriptPromise, loadScriptCalls, getContextCalls,
                   cometdGlobal, disconnects>>

\* the caller invokes handle.disconnect()
Disconnect(c, unsubThrows, discThrows) ==
    /\ calls[c].promise = "resolved"
    /\ "disconnect" \in calls[c].handle.fields
    /\ Len(disconnects[c]) < MaxDisconnects
    /\ LET k == calls[c].handle.cometd
           r == DisconnectBody(clients[k], calls[c].handle.subscription,
                               calls[c].channel, unsubThrows, discThrows)
       IN  /\ clients' = [clients EXCEPT ![k] = r.client]
           /\ disconnects' = [disconnects EXCEPT ![c] =
                  Append(@, r.outcome)]
    /\ UNCHANGED <<scriptPromise, loadScriptCalls, getContextCalls,
                   cometdGlobal, calls>>

\* the steps of initCometD itself, up to the settling of its promise
InitSteps ==
    \/ \E c \in Calls, x \in Contexts, ch \in Channels, w \in WsArgs :
           InitCometD(c, x, ch, w)
    \/ \E ok \in BOOLEAN, g \in BOOLEAN : LoadSettle(ok, g)
    \/ \E c \in Calls, ok \in BOOLEAN, ctx \in Ctxs :
           GetContextSettle(c, ok, ctx)
    \/ \E c \in Calls, r \in {"loadScript rejected", "getContext rejected"} :
           AllRejected(c, r)
    \/ \E c \in Calls : ThenCallback(c)
    \/ \E c \in Calls, s \in Statuses, sr \in SubResults :
           HandshakeCallback(c, s, sr)

Next ==
    \/ InitSteps
    \/ \E c \in Calls, ut \in BOOLEAN, dt \in BOOLEAN : Disconnect(c, ut, dt)

Spec == Init /\ [][Next]_vars

\* the loader, the Apex call and the client each eventually complete, and
\* the promise reactions (microtasks) always run
Fairness ==
    /\ WF_vars(\E ok \in BOOLEAN, g \in BOOLEAN : LoadSettle(ok, g))
    /\ \A c \in Calls :
        /\ WF_vars(\E ok \in BOOLEAN, ctx \in Ctxs :
                       GetContextSettle(c, ok, ctx))
        /\ WF_vars(\E r \in {"loadScript rejected", "getContext rejected"} :
                       AllRejected(c, r))
        /\ WF_vars(ThenCallback(c))
        /\ WF_vars(\E s \in Statuses, sr \in SubResults :
                       HandshakeCallback(c, s, sr))

\* initCometD alone (disconnect() acts only on the handle of a promise that
\* has already settled), under the fairness above
FairSpec == Init /\ [][InitSteps]_vars /\ Fairness

Settled(c) == calls[c].promise \in {"resolved", "rejected"}
ValidArgs(c) == Truthy(calls[c].context) /\ Truthy(calls[c].channel)
Called(c) == calls[c].pc # "idle"

C2_HandleOffersUnsubscribeAndDisconnect ==
    \A c \in Calls :
        calls[c].promise = "resolved"
        => {"unsubscribe", "disconnect"} \subseteq calls[c].handle.fields

\* C3: a client's handshake has been started only if the script load and
\* the call's getContext have resolved with the CometD global present and a
\* non-empty sessionId; subscribe has been called only if the handshake
\* callback reported a successful status.
C3_RuntimeFlowOrdered ==
    \A k \in 1..Len(clients) :
        LET c == clients[k].owner
        IN  /\ clients[k].handshakes > 0
               => /\ scriptPromise = "resolved"
                  /\ calls[c].ctxPromise = "resolved"
                  /\ cometdGlobal
                  /\ ~calls[c].ctx.isNull
                  /\ calls[c].ctx.sessionId # ""
            /\ clients[k].subscribeCalls > 0
               => calls[c].hsStatus = "successful"

C3_Witness ==
    \E k \in 1..Len(clients) :
        /\ clients[k].handshakes = 1
        /\ clients[k].subscribeCalls = 1
        /\ calls[clients[k].owner].channel \in clients[k].subscriptions

\* C4: at most one CometD client exists in the page, whatever the number of
\* initCometD calls.
C4_AtMostOneClient == Len(clients) <= 1

\* C5: every disconnect() call returns normally, and each of them invokes
\* cometd.disconnect(true), also when unsubscribe or disconnect throws.
C5_DisconnectNeverRaises ==
    \A c \in Calls :
        /\ \A i \in 1..Len(disconnects[c]) : disconnects[c][i] = "returned"
        /\ calls[c].promise = "resolved"
           => clients[calls[c].handle.cometd].disconnectCalls
                  = Len(disconnects[c])

\* two disconnect() calls in which unsubscribe threw (the subscription is
\* still there) and cometd.disconnect threw (still connected)
C5_Witness ==
    \E c \in Calls :
        /\ Len(disconnects[c]) = 2
        /\ LET cl == clients[calls[c].handle.cometd]
           IN  /\ cl.unsubscribeCalls = 2
               /\ calls[c].channel \in cl.subscriptions
               /\ cl.connected
               /\ cl.disconnectCalls = 2

\* what a caller holding the handle can reach of the Authorization header
HandleReaches(h) ==
    IF "cometd" \in h.fields THEN {clients[h.cometd].authorization[2]} ELSE {}

C7_WebSocketOnByDefault ==
    \A k \in 1..Len(clients) :
        calls[clients[k].owner].wsArg = "unset"
        => clients[k].websocketEnabled = "true"

\* C8: when the handshake callback reported an absent or unsuccessful
\* status, the promise is rejected with that status, subscribe was not
\* called for the call, and there is no handle.
C8_FailedHandshakeRejects ==
    \A c \in Calls :
        calls[c].hsStatus \in {"undefined", "failed"}
        => /\ calls[c].promise = "rejected"
           /\ calls[c].reason = [kind |-> "status", val |-> calls[c].hsStatus]
           /\ clients[calls[c].client].subscribeCalls = 0
           /\ clients[calls[c].client].subscriptions = {}
           /\ calls[c].handle = NoHandle

C8_Witness ==
    /\ calls[1].hsStatus = "undefined" /\ calls[1].promise = "rejected"
    /\ calls[2].hsStatus = "failed" /\ calls[2].promise = "rejected"

\* C9: the host script loader is invoked at most once.
C9_LoadScriptAtMostOnce == loadScriptCalls <= 1

\* two calls passed validation, the second one after the load had settled
C9_Witness ==
    /\ ValidArgs(1) /\ Called(1) /\ ValidArgs(2) /\ calls[2].pc = "awaitAll"
    /\ scriptPromise = "resolved"
    /\ getContextCalls = 2
    /\ loadScriptCalls = 1

AllConditionsMet(c) ==
    /\ scriptPromise = "resolved"
    /\ calls[c].ctxPromise = "resolved"
    /\ cometdGlobal
    /\ ~calls[c].ctx.isNull /\ calls[c].ctx.sessionId # ""
    /\ calls[c].hsStatus = "successful"

====
